---- MODULE Spec2Model ----
(***************************************************************************)
(* Ledger engine of the Shaastra wallet backend (routes/wallet.js):        *)
(* POST /send, POST /send-group and POST /topup, each run inside a managed *)
(* sequelize.transaction against PostgreSQL.  The handlers take no row     *)
(* lock (no `lock:` option on any find) and pass no isolation level, so    *)
(* every statement of a transaction reads the latest committed row (READ   *)
(* COMMITTED), an UPDATE holds its row until commit or rollback, and       *)
(* instance.save() writes the absolute in-memory balance.                  *)
(***************************************************************************)
EXTENDS Integers, Sequences, FiniteSets, TLC

\* ---------------------------------------------------------------- bounds
MaxOps == 2          \* requests received in one behaviour
MaxRecipients == 2   \* longest recipients list of a /send-group request

Proc == {1, 2}       \* requests that may be in flight at the same time

\* ------------------------------------------------------- the Users table
\* userId is a string, kept as its sequence of character codes.
\* sPin is the stored hash; 0 stands for null (never set).
Users ==
  << [userId |-> <<65, 49>>, name |-> "Asha",   role |-> "Core",
      department |-> "Finance", sPin |-> 1],
     [userId |-> <<66, 49>>, name |-> "Bala",   role |-> "Coordinator",
      department |-> "Finance", sPin |-> 1],
     [userId |-> <<67, 49>>, name |-> "Chitra", role |-> "Vendor",
      department |-> "Webops",  sPin |-> 0] >>

UserIds == DOMAIN Users

InitBalance == <<2, 1, 0>>

\* an identifier passed on as it was typed
KeepCase(s) == s

\* String.prototype.toUpperCase on character codes
ToUpperCase(s) == [i \in DOMAIN s |-> IF s[i] \in 97..122 THEN s[i] - 32 ELSE s[i]]

\* a where clause that is dropped for an unknown value: the first row
FindOneFirstRow(uid) ==
  IF \E u \in UserIds : Users[u].userId = uid
  THEN CHOOSE u \in UserIds : Users[u].userId = uid
  ELSE 1

\* User.findOne({ where: { userId } }): the row's id, or 0 for null
FindOneByUserId(uid) ==
  IF \E u \in UserIds : Users[u].userId = uid
  THEN CHOOSE u \in UserIds : Users[u].userId = uid
  ELSE 0

\* bcrypt.compare without its await: the pending promise is truthy
BcryptComparePending(pin, hash) == TRUE

\* bcrypt.compare(sPin, user.sPin)
BcryptCompare(pin, hash) == pin = hash

\* verifySPin(userId, sPin): "ok" or the message class it throws
VerifySPin(u, pin) ==
  IF Users[u].sPin = 0 THEN "not_set"
  ELSE IF ~BcryptCompare(pin, Users[u].sPin) THEN "invalid"
  ELSE "ok"

\* the department alone, without the role
IsFinanceDept(u) ==
  \/ Users[u].department = "Finance"
  \/ Users[u].role = "Finance Core"

IsFinanceCore(u) ==
  \/ Users[u].department = "Finance" /\ Users[u].role = "Core"
  \/ Users[u].role = "Finance Core"

IsCore(u) == Users[u].role = "Core" \/ Users[u].role = "Finance Core"

\* ---------------------------------------------------------------- inputs
IdA1 == <<65, 49>>
Idb1 == <<98, 49>>
IdC1 == <<67, 49>>
IdX9 == <<88, 57>>
IdY8 == <<89, 56>>

SendReq(u, r, a) ==
  [kind |-> "send", user |-> u, sPin |-> 1, receiverId |-> r, amount |-> a,
   recipients |-> <<>>]

TopupReq(u, a) ==
  [kind |-> "topup", user |-> u, sPin |-> 1, receiverId |-> <<>>, amount |-> a,
   recipients |-> <<>>]

GroupReq(u, l) ==
  [kind |-> "group", user |-> u, sPin |-> 1, receiverId |-> <<>>, amount |-> 0,
   recipients |-> l]

NoReq == [kind |-> "none", user |-> 0, sPin |-> 0, receiverId |-> <<>>,
          amount |-> 0, recipients |-> <<>>]

\* /send bodies: a negative, a zero and the whole balance to one account, a
\* transfer to the other, a self-transfer, an unknown receiver, and a second
\* sender with more than it holds and with what it holds
SendReqs ==
  { SendReq(1, IdC1, a) : a \in {-1, 0, 2} }
    \cup { SendReq(1, r, 1) : r \in {Idb1, IdA1, IdX9} }
    \cup { SendReq(2, IdC1, 2), SendReq(2, IdA1, 1) }

\* /topup bodies; user 2 is in Finance but not Core; the handler reads
\* `amount` and `sPin` only, so an account named in the body is carried as
\* receiverId and never looked at
TopupReqs ==
  { TopupReq(1, a) : a \in {-1, 1} }
    \cup { TopupReq(2, 1) }
    \cup { [TopupReq(1, 1) EXCEPT !.receiverId = Idb1] }

Recipient ==
  { [receiverId |-> Idb1, amount |-> 1], [receiverId |-> Idb1, amount |-> 2],
    [receiverId |-> IdX9, amount |-> 1] }

RecipientLists == UNION { [1..n -> Recipient] : n \in 1..MaxRecipients }

\* recipient lists that name the sender itself, carry a negative amount, or
\* name two unknown accounts
SelfLists ==
  { << [receiverId |-> IdA1, amount |-> 1] >>,
    << [receiverId |-> Idb1, amount |-> 2], [receiverId |-> Idb1, amount |-> -1] >>,
    << [receiverId |-> IdX9, amount |-> 1], [receiverId |-> IdY8, amount |-> 1] >> }

\* /send-group bodies; user 2 is not Core
GroupReqs ==
  { GroupReq(1, l) : l \in RecipientLists \cup SelfLists }
    \cup { GroupReq(2, << [receiverId |-> IdA1, amount |-> 1] >>) }

\* calls with a missing or wrong S-Pin, or by a caller without one
PinReqs ==
  { [r EXCEPT !.user = c[1], !.sPin = c[2]] :
      r \in { SendReq(1, Idb1, 1), TopupReq(1, 1),
               GroupReq(1, << [receiverId |-> Idb1, amount |-> 1] >>) },
      c \in { <<1, 0>>, <<1, 2>>, <<3, 1>> } }

Requests == SendReqs \cup TopupReqs \cup GroupReqs \cup PinReqs

\* ----------------------------------------------------------------- state
VARIABLES
  db,         \* committed Users.balance, by row id
  records,    \* committed rows of the Transactions table, oldest first
  pc,         \* where each request handler stands
  req,        \* req.body and req.user of the request being served
  sender,     \* sender.balance / user.balance of the in-memory instance
  receivers,  \* receiverMap: row id -> in-memory receiver.balance
  wr,         \* rows updated in the open transaction: row id -> balance
  tx,         \* rows inserted in the open transaction
  idx,        \* position of the for-loop over recipients
  resp,       \* last response sent by the handler
  nops,       \* requests received so far
  toppedUp,   \* sum of the amounts of the committed top-ups
  alone,      \* no other request was in flight while this one was
  pre,        \* committed balances when the request was received
  nextId,     \* next value of the Transactions id sequence
  onlineUsers,\* the Map userId -> socket.id, entries in insertion order
  emitted,    \* "transaction_received" events handed to io.to(socket).emit
  sockEvt,    \* the last socket event served
  connected,  \* ids of the sockets that are connected
  hres,       \* the last answer of GET /history, with its query
  sres,       \* the last answer of GET /user/:userId/statement
  cres,       \* the last answer of GET /history/download
  walk,       \* the answers to a client that asks for page 1, 2, ... in turn
  acct,       \* password, sPin, otp and otpExpiry of the Users rows
  apc,        \* where each handler of the auth routes stands
  areq,       \* the request an auth handler serves
  asnap,      \* the otp of the instance the handler loaded
  aresp,      \* the last answer of each auth handler, with its request
  spent,      \* per account: the OTP a call succeeded with, until the next issue
  anops,      \* auth requests received so far
  now         \* Date.now()

vars == <<db, records, pc, req, sender, receivers, wr, tx, idx, resp, nops,
          toppedUp, alone, pre, nextId, onlineUsers, emitted, sockEvt,
          connected, hres, sres, cres, walk, acct, apc, areq, asnap, aresp,
          spent, anops, now>>

NoEvt == [type |-> "none", userId |-> <<>>, socket |-> 0, n |-> 0]

NoQuery == [user |-> 0, page |-> 0, limit |-> 0, search |-> <<>>,
            startDate |-> 0, endDate |-> 0, type |-> ""]

NoHistory == [code |-> 0, rows |-> <<>>, count |-> 0, q |-> NoQuery]

NoSummary == [totalReceived |-> 0, totalSent |-> 0, netAmount |-> 0,
              dateSummary |-> <<>>]

NoStatement == [code |-> 0, summary |-> NoSummary, transactions |-> <<>>,
                q |-> NoQuery]

NoDownload == [code |-> 0, lines |-> <<>>, transactions |-> <<>>, q |-> NoQuery]

\* resp keeps, for an answered 200, the request it answers and what the
\* request saw when it arrived
NoResp == [code |-> 0, message |-> "", missing |-> <<>>, newBalance |-> 0,
           req |-> NoReq, alone |-> TRUE, pre |-> InitBalance]

\* the accounts the auth routes are called for: B1 has registered, C1 has not
AuthUsers == {2, 3}

AuthProc == {1, 2}

NoAuthReq == [route |-> "none", user |-> 0, otp |-> 0, password |-> 0, sPin |-> 0]

NoAuthResp == [code |-> 0, req |-> NoAuthReq, afterUse |-> FALSE]

\* the credential columns as imported (null is 0); an account that holds an
\* S-Pin has registered, with password 1
AuthIdle ==
  /\ acct = [u \in AuthUsers |->
              [password |-> IF Users[u].sPin # 0 THEN 1 ELSE 0,
               sPin |-> Users[u].sPin, otp |-> 0, otpExpiry |-> 0]]
  /\ apc = [p \in AuthProc |-> "idle"]
  /\ areq = [p \in AuthProc |-> NoAuthReq]
  /\ asnap = [p \in AuthProc |-> 0]
  /\ aresp = [p \in AuthProc |-> NoAuthResp]
  /\ spent = [u \in AuthUsers |-> 0]
  /\ anops = 0
  /\ now = 1

\* no request is being served and no socket event has been
Idle ==
  /\ db = InitBalance
  /\ pc = [p \in Proc |-> "idle"]
  /\ req = [p \in Proc |-> NoReq]
  /\ sender = [p \in Proc |-> 0]
  /\ receivers = [p \in Proc |-> <<>>]
  /\ wr = [p \in Proc |-> <<>>]
  /\ tx = [p \in Proc |-> <<>>]
  /\ idx = [p \in Proc |-> 0]
  /\ resp = [p \in Proc |-> NoResp]
  /\ toppedUp = 0
  /\ alone = [p \in Proc |-> TRUE]
  /\ pre = [p \in Proc |-> InitBalance]
  /\ onlineUsers = <<>>
  /\ emitted = <<>>
  /\ sockEvt = NoEvt
  /\ sres = NoStatement
  /\ cres = NoDownload
  /\ walk = <<>>
  /\ AuthIdle

\* the server after start-up and the import of the accounts
Init ==
  /\ Idle
  /\ records = <<>> /\ nextId = 1
  /\ nops = 0
  /\ connected = {}
  /\ hres = NoHistory

\* ------------------------------------------------------ store primitives
\* Model.save() issues an UPDATE only when a field changed
Changed(old, new) == old # new

\* the UPDATE waits while another open transaction holds the row
RowFree(p, row) == \A q \in Proc \ {p} : row \notin DOMAIN wr[q]

\* instance.save({ transaction: t }): the transaction's row image afterwards
SaveRow(w, row, old, new) ==
  IF Changed(old, new)
  THEN [r \in DOMAIN w \cup {row} |-> IF r = row THEN new ELSE w[r]]
  ELSE w

\* COMMIT: the updated rows become the committed ones
CommitRows(d, w) == [r \in DOMAIN d |-> IF r \in DOMAIN w THEN w[r] ELSE d[r]]

\* Transaction.create / bulkCreate field list; `type` takes its default
NewRecord(s, r, sName, sUserId, amt) ==
  [senderId |-> s, receiverId |-> r,
   senderName |-> sName, receiverName |-> Users[r].name,
   senderUserId |-> sUserId, receiverUserId |-> Users[r].userId,
   amount |-> amt, type |-> "TRANSFER", id |-> 0, createdAt |-> 0]

\* the row as INSERTed: id from the sequence, createdAt from the clock,
\* which is read once per statement
Inserted(rec, id, at) == [rec EXCEPT !.id = id, !.createdAt = at]

\* onlineUsers.get(userId): the socket id, or 0 for undefined
OnlineGet(reg, uid) ==
  IF \E i \in DOMAIN reg : reg[i].userId = uid
  THEN reg[CHOOSE i \in DOMAIN reg : reg[i].userId = uid].socket
  ELSE 0

\* the payload of "transaction_received"
Event(rec, sck) ==
  [id |-> rec.id, amount |-> rec.amount, senderName |-> rec.senderName,
   type |-> "credit", to |-> sck]

\* the emit without its `if (receiverSocketId)`
EmitUnguarded(reg, rec) == << Event(rec, OnlineGet(reg, rec.receiverUserId)) >>

\* if (receiverSocketId) io.to(receiverSocketId).emit(...): the events sent
Emit(reg, rec) ==
  IF OnlineGet(reg, rec.receiverUserId) # 0
  THEN << Event(rec, OnlineGet(reg, rec.receiverUserId)) >>
  ELSE <<>>

\* a write keyed by the (senderId, receiverId) pair: rows of the same pair
\* are replaced
UpsertRows(rs, t) ==
  SelectSeq(rs, LAMBDA r : \A i \in DOMAIN t :
                             <<r.senderId, r.receiverId>> #
                               <<t[i].senderId, t[i].receiverId>>) \o t

\* INSERT INTO "Transactions": the created rows follow the existing ones
InsertRows(rs, t) == rs \o t

\* the handler answers and its locals go away
Finish(p, r) ==
  /\ resp' = [resp EXCEPT ![p] = r]
  /\ alone' = [alone EXCEPT ![p] = TRUE]
  /\ pre' = [pre EXCEPT ![p] = InitBalance]
  /\ pc' = [pc EXCEPT ![p] = "idle"]
  /\ req' = [req EXCEPT ![p] = NoReq]
  /\ sender' = [sender EXCEPT ![p] = 0]
  /\ receivers' = [receivers EXCEPT ![p] = <<>>]
  /\ wr' = [wr EXCEPT ![p] = <<>>]
  /\ tx' = [tx EXCEPT ![p] = <<>>]
  /\ idx' = [idx EXCEPT ![p] = 0]

\* the statements run outside the transaction: what was written stays
RejectNoRollback(p, code, msg) ==
  /\ Finish(p, [NoResp EXCEPT !.code = code, !.message = msg])
  /\ db' = CommitRows(db, wr[p])
  /\ records' = records \o tx[p]
  /\ UNCHANGED toppedUp

\* the callback threw, or the gate answered 4xx: ROLLBACK, nothing committed
Reject(p, code, msg) ==
  /\ Finish(p, [NoResp EXCEPT !.code = code, !.message = msg])
  /\ UNCHANGED <<db, records, toppedUp>>

\* res.json(result) after COMMIT
Success(p, msg, bal) ==
  [code |-> 200, message |-> msg, missing |-> <<>>, newBalance |-> bal,
   req |-> req[p], alone |-> alone[p], pre |-> pre[p]]

\* a check that the sender has money at all
InsufficientIfEmpty(bal, amt) == bal <= 0

\* the balance check of /send
InsufficientBalance(bal, amt) == bal < amt

\* sender.balance -= amount
Debit(bal, amt) == bal - amt

\* `=` written for `+=`
CreditAssign(bal, amt) == amt

\* receiver.balance += amount
Credit(bal, amt) == bal + amt

\* the two loaded instances compared by identity: never the same object
SameInstance(s, r) == FALSE

\* sender.id === receiver.id
SameAccount(s, r) == s = r

\* ------------------------------------------------------- request arrival
Receive(p) ==
  /\ pc[p] = "idle"
  /\ nops < MaxOps
  /\ \E r \in Requests :
       /\ req' = [req EXCEPT ![p] = r]
       /\ pc' = [pc EXCEPT ![p] = r.kind]
  /\ nops' = nops + 1
  /\ resp' = [resp EXCEPT ![p] = NoResp]
  /\ alone' = [q \in Proc |-> IF q = p THEN \A o \in Proc \ {p} : pc[o] = "idle"
                              ELSE IF pc[q] = "idle" THEN alone[q] ELSE FALSE]
  /\ pre' = [pre EXCEPT ![p] = db]
  /\ UNCHANGED <<db, records, sender, receivers, wr, tx, idx, toppedUp>>

\* ----------------------------------------------------------- POST /send
\* S-Pin gate, BEGIN, findByPk(sender) and the balance check
SendBegin(p) ==
  /\ pc[p] = "send"
  /\ UNCHANGED nops
  /\ IF req[p].sPin = 0 THEN Reject(p, 400, "S-Pin is required")
     ELSE IF VerifySPin(req[p].user, req[p].sPin) # "ok"
          THEN Reject(p, 401, VerifySPin(req[p].user, req[p].sPin))
     ELSE IF InsufficientBalance(db[req[p].user], req[p].amount)
          THEN Reject(p, 500, "Insufficient balance")
     ELSE /\ sender' = [sender EXCEPT ![p] = db[req[p].user]]
          /\ pc' = [pc EXCEPT ![p] = "send_findReceiver"]
          /\ UNCHANGED <<db, records, req, receivers, wr, tx, idx, resp, toppedUp, alone, pre>>

\* findOne(receiver), the two checks, and the in-memory arithmetic
SendFindReceiver(p) ==
  /\ pc[p] = "send_findReceiver"
  /\ UNCHANGED nops
  /\ LET rcv == FindOneByUserId(ToUpperCase(req[p].receiverId)) IN
     IF rcv = 0 THEN Reject(p, 500, "Receiver not found")
     ELSE IF SameAccount(req[p].user, rcv) THEN Reject(p, 500, "Cannot send money to yourself")
     ELSE /\ sender' = [sender EXCEPT ![p] = Debit(sender[p], req[p].amount)]
          /\ receivers' = [receivers EXCEPT ![p] = (rcv :> Credit(db[rcv], req[p].amount))]
          /\ pc' = [pc EXCEPT ![p] = "send_saveSender"]
          /\ UNCHANGED <<db, records, req, wr, tx, idx, resp, toppedUp, alone, pre>>

SendReceiver(p) == CHOOSE r \in DOMAIN receivers[p] : TRUE

SendSaveSender(p) ==
  /\ pc[p] = "send_saveSender"
  /\ Changed(sender[p] + req[p].amount, sender[p]) => RowFree(p, req[p].user)
  /\ wr' = [wr EXCEPT ![p] = SaveRow(wr[p], req[p].user,
                                     sender[p] + req[p].amount, sender[p])]
  /\ pc' = [pc EXCEPT ![p] = "send_saveReceiver"]
  /\ UNCHANGED <<db, records, req, sender, receivers, tx, idx, resp, nops,
                 toppedUp, alone, pre>>

SendSaveReceiver(p) ==
  /\ pc[p] = "send_saveReceiver"
  /\ LET rcv == SendReceiver(p)
         new == receivers[p][rcv] IN
     /\ Changed(new - req[p].amount, new) => RowFree(p, rcv)
     /\ wr' = [wr EXCEPT ![p] = SaveRow(wr[p], rcv, new - req[p].amount, new)]
  /\ pc' = [pc EXCEPT ![p] = "send_create"]
  /\ UNCHANGED <<db, records, req, sender, receivers, tx, idx, resp, nops,
                 toppedUp, alone, pre>>

\* Transaction.create and the notification of the receiver
SendCreate(p) ==
  /\ pc[p] = "send_create"
  /\ LET new == Inserted(NewRecord(req[p].user, SendReceiver(p),
                                   Users[req[p].user].name,
                                   Users[req[p].user].userId, req[p].amount),
                         nextId, nextId) IN
     /\ tx' = [tx EXCEPT ![p] = Append(tx[p], new)]
     /\ emitted' = emitted \o Emit(onlineUsers, new)
  /\ nextId' = nextId + 1
  /\ pc' = [pc EXCEPT ![p] = "send_commit"]
  /\ UNCHANGED <<db, records, req, sender, receivers, wr, idx, resp, nops,
                 toppedUp, alone, pre>>

SendCommit(p) ==
  /\ pc[p] = "send_commit"
  /\ db' = CommitRows(db, wr[p])
  /\ records' = InsertRows(records, tx[p])
  /\ Finish(p, Success(p, "Transaction successful", sender[p]))
  /\ UNCHANGED <<nops, toppedUp>>

\* ----------------------------------------------------------- POST /topup
FinanceName == "Shaastra Finance"
FinanceTopup == <<70, 73, 78, 65, 78, 67, 69, 95, 84, 79, 80, 85, 80>>

\* the account the body names, when it names one
TopupTarget(r) ==
  IF r.receiverId # <<>> /\ FindOneByUserId(ToUpperCase(r.receiverId)) # 0
  THEN FindOneByUserId(ToUpperCase(r.receiverId))
  ELSE r.user

\* User.findByPk(req.user.id): the row credited is the caller's own
TopupUser(r) == r.user

\* isFinanceCore, S-Pin gate, BEGIN, findByPk(user) and the in-memory credit
TopupBegin(p) ==
  /\ pc[p] = "topup"
  /\ UNCHANGED nops
  /\ IF ~IsFinanceCore(req[p].user)
     THEN Reject(p, 403, "Forbidden: Access is restricted to Finance Core members.")
     ELSE IF req[p].sPin = 0 THEN Reject(p, 400, "S-Pin is required")
     ELSE IF VerifySPin(req[p].user, req[p].sPin) # "ok"
          THEN Reject(p, 401, VerifySPin(req[p].user, req[p].sPin))
     ELSE /\ sender' = [sender EXCEPT ![p] = Credit(db[TopupUser(req[p])], req[p].amount)]
          /\ pc' = [pc EXCEPT ![p] = "topup_save"]
          /\ UNCHANGED <<db, records, req, receivers, wr, tx, idx, resp, toppedUp, alone, pre>>

TopupSave(p) ==
  /\ pc[p] = "topup_save"
  /\ Changed(sender[p] - req[p].amount, sender[p]) => RowFree(p, TopupUser(req[p]))
  /\ wr' = [wr EXCEPT ![p] = SaveRow(wr[p], TopupUser(req[p]),
                                     sender[p] - req[p].amount, sender[p])]
  /\ pc' = [pc EXCEPT ![p] = "topup_create"]
  /\ UNCHANGED <<db, records, req, sender, receivers, tx, idx, resp, nops,
                 toppedUp, alone, pre>>

\* the handler without its Transaction.create
TopupNoRecord(p) ==
  /\ pc[p] = "topup_create"
  /\ UNCHANGED <<nextId, emitted>>
  /\ pc' = [pc EXCEPT ![p] = "topup_commit"]
  /\ UNCHANGED <<db, records, req, sender, receivers, wr, tx, idx, resp, nops,
                 toppedUp, alone, pre>>

TopupCreate(p) ==
  /\ pc[p] = "topup_create"
  /\ tx' = [tx EXCEPT ![p] = Append(tx[p],
              Inserted(NewRecord(TopupUser(req[p]), TopupUser(req[p]),
                                 FinanceName, FinanceTopup, req[p].amount),
                       nextId, nextId))]
  /\ nextId' = nextId + 1
  /\ UNCHANGED emitted
  /\ pc' = [pc EXCEPT ![p] = "topup_commit"]
  /\ UNCHANGED <<db, records, req, sender, receivers, wr, idx, resp, nops,
                 toppedUp, alone, pre>>

TopupCommit(p) ==
  /\ pc[p] = "topup_commit"
  /\ db' = CommitRows(db, wr[p])
  /\ records' = InsertRows(records, tx[p])
  /\ toppedUp' = toppedUp + req[p].amount
  /\ Finish(p, Success(p, "Successfully topped up", sender[p]))
  /\ UNCHANGED nops

\* ----------------------------------------------------- POST /send-group
\* recipients.reduce((acc, r) => acc + r.amount, 0)
RECURSIVE TotalAmount(_)
TotalAmount(l) == IF l = <<>> THEN 0 ELSE l[1].amount + TotalAmount(Tail(l))

\* recipients.map(r => r.receiverId.toUpperCase())
ReceiverIds(l) == [i \in DOMAIN l |-> ToUpperCase(l[i].receiverId)]

\* receiverIds.filter(id => !receiverMap.has(id)), as the positions kept
MissingReceivers(l) ==
  { i \in DOMAIN l : FindOneByUserId(ReceiverIds(l)[i]) = 0 }

\* a lookup that reports the first identifier it does not find
MissingFirst(l) ==
  IF MissingReceivers(l) = {} THEN <<>>
  ELSE << ReceiverIds(l)[CHOOSE i \in MissingReceivers(l) :
                           \A j \in MissingReceivers(l) : i <= j] >>

\* missingReceivers, in the order of the input list
MissingIds(l) ==
  LET F[i \in 0..Len(l)] ==
        IF i = 0 THEN <<>>
        ELSE IF i \in MissingReceivers(l) THEN Append(F[i - 1], ReceiverIds(l)[i])
        ELSE F[i - 1]
  IN F[Len(l)]

\* User.findAll({ where: { userId: { [Op.in]: receiverIds } } }) as receiverMap
FindAllReceivers(l, d) ==
  LET found == { FindOneByUserId(ReceiverIds(l)[i]) : i \in DOMAIN l } \ {0}
  IN [r \in found |-> d[r]]

\* each amount checked on its own
InsufficientForAny(bal, l) == \E i \in DOMAIN l : bal < l[i].amount

\* sender.balance < totalAmountToSend
InsufficientForGroup(bal, l) == bal < TotalAmount(l)

\* isCore, S-Pin gate, BEGIN, findByPk(sender) and the check of the total
GroupBegin(p) ==
  /\ pc[p] = "group"
  /\ UNCHANGED nops
  /\ IF ~IsCore(req[p].user)
     THEN Reject(p, 403, "Forbidden: Access is restricted to Core members.")
     ELSE IF req[p].sPin = 0 THEN Reject(p, 400, "S-Pin is required")
     ELSE IF VerifySPin(req[p].user, req[p].sPin) # "ok"
          THEN Reject(p, 401, VerifySPin(req[p].user, req[p].sPin))
     ELSE IF InsufficientForGroup(db[req[p].user], req[p].recipients)
          THEN Reject(p, 500, "Insufficient balance for group transaction")
     ELSE /\ sender' = [sender EXCEPT ![p] = db[req[p].user]]
          /\ pc' = [pc EXCEPT ![p] = "group_findAll"]
          /\ UNCHANGED <<db, records, req, receivers, wr, tx, idx, resp, toppedUp, alone, pre>>

\* the batch lookup and the missingReceivers check
GroupFindAll(p) ==
  /\ pc[p] = "group_findAll"
  /\ UNCHANGED nops
  /\ IF MissingReceivers(req[p].recipients) # {}
     THEN /\ Finish(p, [NoResp EXCEPT !.code = 500,
                                      !.message = "Receiver(s) not found",
                                      !.missing = MissingIds(req[p].recipients)])
          /\ UNCHANGED <<db, records, toppedUp>>
     ELSE /\ receivers' = [receivers EXCEPT ![p] = FindAllReceivers(req[p].recipients, db)]
          /\ idx' = [idx EXCEPT ![p] = 1]
          /\ pc' = [pc EXCEPT ![p] = "group_loop"]
          /\ UNCHANGED <<db, records, req, sender, wr, tx, resp, toppedUp, alone, pre>>

\* one iteration of `for (const r of recipients)`; reading .balance of a
\* receiver the map does not hold is a TypeError
GroupLoop(p) ==
  /\ pc[p] = "group_loop"
  /\ UNCHANGED nops
  /\ LET r == req[p].recipients[idx[p]]
         rcv == FindOneByUserId(ToUpperCase(r.receiverId)) IN
     IF rcv \notin DOMAIN receivers[p] THEN Reject(p, 500, "TypeError")
     ELSE
       LET old == receivers[p][rcv]
           new == Credit(old, r.amount) IN
       /\ Changed(old, new) => RowFree(p, rcv)
       /\ sender' = [sender EXCEPT ![p] = Debit(sender[p], r.amount)]
       /\ receivers' = [receivers EXCEPT ![p] = [receivers[p] EXCEPT ![rcv] = new]]
       /\ wr' = [wr EXCEPT ![p] = SaveRow(wr[p], rcv, old, new)]
       /\ tx' = [tx EXCEPT ![p] = Append(tx[p],
                   NewRecord(req[p].user, rcv, Users[req[p].user].name,
                             Users[req[p].user].userId, r.amount))]
       /\ IF idx[p] = Len(req[p].recipients)
          THEN /\ pc' = [pc EXCEPT ![p] = "group_bulkCreate"]
               /\ idx' = idx
          ELSE /\ pc' = pc
               /\ idx' = [idx EXCEPT ![p] = idx[p] + 1]
       /\ UNCHANGED <<db, records, req, resp, toppedUp, alone, pre>>

\* the events of createdTransactions.forEach, in the order of the list
RECURSIVE EmitAll(_, _)
EmitAll(reg, rows) ==
  IF rows = <<>> THEN <<>>
  ELSE Emit(reg, Head(rows)) \o EmitAll(reg, Tail(rows))

\* transactionsToCreate as bulkCreate INSERTs it
BulkInserted(rows, id) ==
  [i \in DOMAIN rows |-> Inserted(rows[i], id + i - 1, id)]

\* Transaction.bulkCreate(transactionsToCreate) and the notifications
GroupBulkCreate(p) ==
  /\ pc[p] = "group_bulkCreate"
  /\ tx' = [tx EXCEPT ![p] = BulkInserted(tx[p], nextId)]
  /\ emitted' = emitted \o EmitAll(onlineUsers, BulkInserted(tx[p], nextId))
  /\ nextId' = nextId + Len(tx[p])
  /\ pc' = [pc EXCEPT ![p] = "group_saveSender"]
  /\ UNCHANGED <<db, records, req, sender, receivers, wr, idx, resp, nops,
                 toppedUp, alone, pre>>

\* sender.save(): the instance was loaded with the balance read at BEGIN
GroupSaveSender(p) ==
  /\ pc[p] = "group_saveSender"
  /\ LET old == sender[p] + TotalAmount(req[p].recipients) IN
     /\ Changed(old, sender[p]) => RowFree(p, req[p].user)
     /\ wr' = [wr EXCEPT ![p] = SaveRow(wr[p], req[p].user, old, sender[p])]
  /\ pc' = [pc EXCEPT ![p] = "group_commit"]
  /\ UNCHANGED <<db, records, req, sender, receivers, tx, idx, resp, nops,
                 toppedUp, alone, pre>>

GroupCommit(p) ==
  /\ pc[p] = "group_commit"
  /\ db' = CommitRows(db, wr[p])
  /\ records' = InsertRows(records, tx[p])
  /\ Finish(p, Success(p, "Group transaction successful", sender[p]))
  /\ UNCHANGED <<nops, toppedUp>>

\* ------------------------------------------------------------ store error
InTx == {"send_findReceiver", "send_saveSender", "send_saveReceiver",
         "send_create", "send_commit",
         "topup_save", "topup_create", "topup_commit",
         "group_findAll", "group_loop", "group_bulkCreate",
         "group_saveSender", "group_commit"}

\* a statement of the open transaction fails (connection loss, deadlock
\* victim, constraint): the callback rejects, sequelize rolls back, and the
\* answer carries the failing statement's message
StoreError(p) ==
  /\ pc[p] \in InTx
  /\ Reject(p, 500, pc[p])
  /\ UNCHANGED nops

\* the id sequence and the events; the sockets and the last history answer,
\* which no ledger handler writes
idVars == <<nextId, emitted>>
reportVars == <<sres, cres, walk>>
authVars == <<acct, apc, areq, asnap, aresp, spent, anops, now>>
sockVars == <<onlineUsers, sockEvt, connected, hres, reportVars, authVars>>

Next ==
  \E p \in Proc :
    \/ Receive(p) /\ UNCHANGED idVars /\ UNCHANGED sockVars
    \/ SendBegin(p) /\ UNCHANGED idVars /\ UNCHANGED sockVars
    \/ SendFindReceiver(p) /\ UNCHANGED idVars /\ UNCHANGED sockVars
    \/ SendSaveSender(p) /\ UNCHANGED idVars /\ UNCHANGED sockVars
    \/ SendSaveReceiver(p) /\ UNCHANGED idVars /\ UNCHANGED sockVars
    \/ SendCreate(p) /\ UNCHANGED sockVars
    \/ SendCommit(p) /\ UNCHANGED idVars /\ UNCHANGED sockVars
    \/ TopupBegin(p) /\ UNCHANGED idVars /\ UNCHANGED sockVars
    \/ TopupSave(p) /\ UNCHANGED idVars /\ UNCHANGED sockVars
    \/ TopupCreate(p) /\ UNCHANGED sockVars
    \/ TopupCommit(p) /\ UNCHANGED idVars /\ UNCHANGED sockVars
    \/ GroupBegin(p) /\ UNCHANGED idVars /\ UNCHANGED sockVars
    \/ GroupFindAll(p) /\ UNCHANGED idVars /\ UNCHANGED sockVars
    \/ GroupLoop(p) /\ UNCHANGED idVars /\ UNCHANGED sockVars
    \/ GroupBulkCreate(p) /\ UNCHANGED sockVars
    \/ GroupSaveSender(p) /\ UNCHANGED idVars /\ UNCHANGED sockVars
    \/ GroupCommit(p) /\ UNCHANGED idVars /\ UNCHANGED sockVars
    \/ StoreError(p) /\ UNCHANGED idVars /\ UNCHANGED sockVars

Spec == Init /\ [][Next]_vars

\* ------------------------------------------------------------- sockets
MaxSocketEvents == 3   \* socket events served in one behaviour

Sockets == {1, 2}

\* what a client sends with join_room: the userId of B1 or of C1
JoinIds == { Users[2].userId, Users[3].userId }

\* Map.prototype.set that keeps the value an existing key has
SetIfAbsent(reg, uid, sck) ==
  IF \E i \in DOMAIN reg : reg[i].userId = uid THEN reg
  ELSE Append(reg, [userId |-> uid, socket |-> sck])

\* Map.prototype.set: a new key goes last, an existing key keeps its place
MapSet(reg, uid, sck) ==
  IF \E i \in DOMAIN reg : reg[i].userId = uid
  THEN [i \in DOMAIN reg |->
          IF reg[i].userId = uid THEN [reg[i] EXCEPT !.socket = sck] ELSE reg[i]]
  ELSE Append(reg, [userId |-> uid, socket |-> sck])

\* the for-loop of the disconnect handler: the first entry of the socket is
\* deleted, then `break`
DeleteFirstOf(reg, sck) ==
  IF \E i \in DOMAIN reg : reg[i].socket = sck
  THEN LET k == CHOOSE i \in DOMAIN reg :
                  reg[i].socket = sck /\ \A j \in 1..(i - 1) : reg[j].socket # sck
       IN SubSeq(reg, 1, k - 1) \o SubSeq(reg, k + 1, Len(reg))
  ELSE reg

\* socket.on("join_room", userId)
JoinRoom(s, uid) ==
  /\ s \in connected
  /\ sockEvt.n < MaxSocketEvents
  /\ onlineUsers' = MapSet(onlineUsers, uid, s)
  /\ sockEvt' = [type |-> "join_room", userId |-> uid, socket |-> s,
                 n |-> sockEvt.n + 1]
  /\ UNCHANGED connected

\* socket.on("disconnect"); the id of a closed socket is not used again
Disconnect(s) ==
  /\ s \in connected
  /\ sockEvt.n < MaxSocketEvents
  /\ onlineUsers' = DeleteFirstOf(onlineUsers, s)
  /\ connected' = connected \ {s}
  /\ sockEvt' = [type |-> "disconnect", userId |-> <<>>, socket |-> s,
                 n |-> sockEvt.n + 1]

\* the events of a forEach that throws at its k-th emit
EmittedBefore(p, k) ==
  IF pc[p] = "send_create" THEN <<>>
  ELSE SubSeq(EmitAll(onlineUsers, BulkInserted(tx[p], nextId)), 1, k)

\* io.to(...).emit or the registry lookup throws after the INSERT: nothing
\* catches it inside the transaction callback, so the callback rejects,
\* sequelize rolls back and the handler answers 500; the ids are spent and
\* the events already sent stay sent
EmitError(p) ==
  /\ pc[p] \in {"send_create", "group_bulkCreate"}
  /\ \E k \in 0..Len(tx[p]) :
       /\ k < Len(EmitAll(onlineUsers, BulkInserted(tx[p], nextId))) \/ k = 0
       /\ emitted' = emitted \o EmittedBefore(p, k)
  /\ nextId' = nextId + (IF pc[p] = "send_create" THEN 1 ELSE Len(tx[p]))
  /\ Reject(p, 500, "emit")
  /\ UNCHANGED <<nops, sockVars>>

ledgerVars == <<db, records, pc, req, sender, receivers, wr, tx, idx, resp,
                nops, toppedUp, alone, pre>>

\* two clients are connected and one request is served while they join
\* and leave
NotifyInit ==
  /\ Idle
  /\ records = <<>> /\ nextId = 1
  /\ nops = MaxOps - 1
  /\ connected = Sockets
  /\ hres = NoHistory

NotifyNext ==
  \/ Next
  \/ \E s \in Sockets, uid \in JoinIds :
       JoinRoom(s, uid) /\ UNCHANGED <<ledgerVars, idVars, hres, reportVars, authVars>>
  \/ \E s \in Sockets :
       Disconnect(s) /\ UNCHANGED <<ledgerVars, idVars, hres, reportVars, authVars>>
  \/ \E p \in Proc : EmitError(p)

SpecNotify == NotifyInit /\ [][NotifyNext]_vars

\* -------------------------------------------------------- GET /history
MaxRows == 3           \* rows of a drawn Transactions table

DefaultLimit == 20

\* parseInt(req.query.page) || 1; 0 stands for an absent or unparsable value
PageOf(q) == IF q.page = 0 THEN 1 ELSE q.page

\* parseInt(req.query.limit) || 20
LimitOf(q) == IF q.limit = 0 THEN DefaultLimit ELSE q.limit

OffsetOf(q) == (PageOf(q) - 1) * LimitOf(q)

\* the characters of the names the tables hold
Chars(name) ==
  CASE name = "Asha" -> <<65, 115, 104, 97>>
    [] name = "Bala" -> <<66, 97, 108, 97>>
    [] name = "Chitra" -> <<67, 104, 105, 116, 114, 97>>
    [] name = "Shaastra Finance" ->
         <<83, 104, 97, 97, 115, 116, 114, 97, 32, 70, 105, 110, 97, 110, 99, 101>>
    [] OTHER -> <<>>

\* column ILIKE '%pat%': a case-insensitive substring test
ILike(text, pat) ==
  \E o \in 0..(Len(text) - Len(pat)) :
    \A k \in DOMAIN pat : ToUpperCase(text)[o + k] = ToUpperCase(pat)[k]

\* the four columns of the search
SearchClause(r, pat) ==
  \/ ILike(Chars(r.senderName), pat)
  \/ ILike(Chars(r.receiverName), pat)
  \/ ILike(r.senderUserId, pat)
  \/ ILike(r.receiverUserId, pat)

\* createdAt BETWEEN startDate AND endDate, when both are given
DateClause(r, q) ==
  (q.startDate # 0 /\ q.endDate # 0)
    => (q.startDate <= r.createdAt /\ r.createdAt <= q.endDate)

\* 'sent' as a plain senderId filter
TypeClausePlain(r, q) ==
  CASE q.type = "sent" -> r.senderId = q.user
    [] q.type = "received" -> r.receiverId = q.user
    [] q.type = "topup" -> r.senderId = q.user /\ r.receiverId = q.user
    [] OTHER -> TRUE

\* the keys the type filter adds to whereClause
TypeClause(r, q) ==
  CASE q.type = "sent" -> r.senderId = q.user /\ ~(r.senderId = r.receiverId)
    [] q.type = "received" -> r.receiverId = q.user /\ ~(r.senderId = r.receiverId)
    [] q.type = "topup" -> r.senderId = q.user /\ r.receiverId = q.user
    [] OTHER -> TRUE

\* the search assigned to whereClause[Op.or], over the two party keys
WhereSearchOverParty(r, q) ==
  /\ IF q.search # <<>> THEN SearchClause(r, q.search)
     ELSE (r.senderId = q.user \/ r.receiverId = q.user)
  /\ DateClause(r, q)
  /\ TypeClause(r, q)

\* a whereClause that starts from the sender key only
WhereSenderOnly(r, q) ==
  /\ r.senderId = q.user
  /\ (q.search # <<>> => SearchClause(r, q.search))
  /\ DateClause(r, q)
  /\ TypeClause(r, q)

\* whereClause: its keys are ANDed
Where(r, q) ==
  /\ (r.senderId = q.user \/ r.receiverId = q.user)
  /\ (q.search # <<>> => SearchClause(r, q.search))
  /\ DateClause(r, q)
  /\ TypeClause(r, q)

\* ORDER BY "createdAt" DESC: every order the database may return, rows
\* of equal createdAt in any order
RECURSIVE OrderedDesc(_)
OrderedDesc(S) ==
  IF S = {} THEN { <<>> }
  ELSE UNION { { <<m>> \o t : t \in OrderedDesc(S \ {m}) } :
               m \in { x \in S : \A y \in S : y.createdAt <= x.createdAt } }

Min(a, b) == IF a <= b THEN a ELSE b

\* LIMIT limit OFFSET offset
PageRows(o, q) == SubSeq(o, OffsetOf(q) + 1, Min(OffsetOf(q) + LimitOf(q), Len(o)))

\* the rows a drawn table may hold: what the handlers create
RowKinds ==
  { NewRecord(1, 2, Users[1].name, Users[1].userId, 1),
    NewRecord(2, 1, Users[2].name, Users[2].userId, 1),
    NewRecord(2, 3, Users[2].name, Users[2].userId, 1),
    NewRecord(1, 1, FinanceName, FinanceTopup, 1),
    NewRecord(1, 1, Users[1].name, Users[1].userId, 1) }

\* tables of up to MaxRows rows, ids from the sequence, createdAt either
\* one per row or shared by neighbours as after a bulkCreate
Tables ==
  UNION { { [i \in 1..n |-> Inserted(f[i], i, IF bulk THEN (i + 1) \div 2 ELSE i)] :
              f \in [1..n -> RowKinds], bulk \in BOOLEAN } :
          n \in 0..MaxRows }

\* a table longer than the default page
LongTable ==
  [i \in 1..(DefaultLimit + 1) |->
     Inserted(NewRecord(1, 2, Users[1].name, Users[1].userId, 1), i, i)]

\* req.query and req.user.id of GET /history
Queries ==
  [user : {1, 2}, page : {0, 2}, limit : {-1, 0, 1, 100},
   search : {<<>>, <<115, 104, 97>>}, startDate : {0, 2}, endDate : {0, 3},
   type : {"", "sent", "received", "topup"}]

\* router.get('/history'), served once in a behaviour; a negative LIMIT or
\* OFFSET is an SQL error
History(q) ==
  /\ hres = NoHistory
  /\ IF LimitOf(q) < 0 \/ OffsetOf(q) < 0
     THEN hres' = [NoHistory EXCEPT !.code = 500, !.q = q]
     ELSE \E o \in OrderedDesc({ records[i] : i \in { j \in DOMAIN records :
                                                        Where(records[j], q) } }) :
            hres' = [code |-> 200, rows |-> PageRows(o, q), count |-> Len(o),
                     q |-> q]
  /\ UNCHANGED <<ledgerVars, idVars, onlineUsers, sockEvt, connected, reportVars,
                 authVars>>

\* no ledger request arrives; the table is one the handlers have written
HistoryInit ==
  /\ Idle
  /\ records \in Tables \cup {LongTable}
  /\ nextId = Len(records) + 1
  /\ nops = MaxOps
  /\ connected = {}
  /\ hres = NoHistory

HistoryNext == \E q \in Queries : History(q)

SpecHistory == HistoryInit /\ [][HistoryNext]_vars

\* ------------------------------------------------------------- reports
\* the rows a drawn table may hold when the vendor C1 trades: A1 pays C1,
\* C1 pays B1, A1 pays B1 two coupons, a top-up of A1 and the row a
\* /send-group of A1 leaves for A1 itself
ReportRowKinds ==
  { NewRecord(1, 3, Users[1].name, Users[1].userId, 1),
    NewRecord(3, 2, Users[3].name, Users[3].userId, 1),
    NewRecord(1, 2, Users[1].name, Users[1].userId, 2),
    NewRecord(1, 1, FinanceName, FinanceTopup, 1),
    NewRecord(1, 1, Users[1].name, Users[1].userId, 1) }

\* the balances after the handlers wrote row r: a top-up credits, a
\* transfer moves the amount, and the sender's own row of a group transfer
\* ends as a debit (sender.save comes last)
Applied(d, r) ==
  IF r.senderUserId = FinanceTopup
  THEN [d EXCEPT ![r.receiverId] = Credit(@, r.amount)]
  ELSE IF r.senderId = r.receiverId
       THEN [d EXCEPT ![r.senderId] = Debit(@, r.amount)]
       ELSE [d EXCEPT ![r.senderId] = Debit(@, r.amount),
                      ![r.receiverId] = Credit(@, r.amount)]

\* the rows can have been written one after the other from the balances d:
\* no sender was short of the amount
RECURSIVE Feasible(_, _)
Feasible(d, t) ==
  IF t = <<>> THEN TRUE
  ELSE /\ \/ Head(t).senderUserId = FinanceTopup
          \/ ~InsufficientBalance(d[Head(t).senderId], Head(t).amount)
       /\ Feasible(Applied(d, Head(t)), Tail(t))

\* rows share a createdAt only when one bulkCreate of a Core wrote them
SharedClockOk(t) ==
  \A i, j \in DOMAIN t :
    (i # j /\ t[i].createdAt = t[j].createdAt)
      => /\ t[i].senderId = t[j].senderId /\ IsCore(t[i].senderId)
         /\ t[i].senderUserId # FinanceTopup /\ t[j].senderUserId # FinanceTopup

ReportTables ==
  { t \in UNION { { [i \in 1..n |-> Inserted(f[i], i,
                                     IF bulk THEN (i + 1) \div 2 ELSE i)] :
                      f \in [1..n -> ReportRowKinds], bulk \in BOOLEAN } :
                  n \in 0..MaxRows } :
      Feasible(InitBalance, t) /\ SharedClockOk(t) }

\* ORDER BY "createdAt" ASC, rows of equal createdAt in any order
RECURSIVE OrderedAsc(_)
OrderedAsc(S) ==
  IF S = {} THEN { <<>> }
  ELSE UNION { { <<m>> \o t : t \in OrderedAsc(S \ {m}) } :
               m \in { x \in S : \A y \in S : x.createdAt <= y.createdAt } }

\* --------------------------------------- GET /user/:userId/statement
DayLen == 2            \* clock ticks of one calendar day

\* toLocaleDateString('en-IN', ...): the calendar day of a createdAt
DayOf(at) == at \div DayLen

IsSender(r, u) == r.senderUserId = Users[u].userId

IsTopUp(r) == r.senderUserId = r.receiverUserId

NewBucket(day) == [date |-> day, received |-> 0, sent |-> 0, net |-> 0]

\* the body of the forEach with the net taken before the amount is added
AddTxStaleNet(s, r, u) ==
  LET day == DayOf(r.createdAt)
      ds == IF \E i \in DOMAIN s.dateSummary : s.dateSummary[i].date = day
            THEN s.dateSummary
            ELSE Append(s.dateSummary, NewBucket(day))
      k == CHOOSE i \in DOMAIN ds : ds[i].date = day
      stale == [ds[k] EXCEPT !.net = ds[k].received - ds[k].sent]
  IN IF IsSender(r, u) /\ ~IsTopUp(r)
     THEN [s EXCEPT !.totalSent = @ + r.amount,
                    !.dateSummary = [ds EXCEPT ![k] =
                        [stale EXCEPT !.sent = @ + r.amount]]]
     ELSE [s EXCEPT !.totalReceived = @ + r.amount,
                    !.dateSummary = [ds EXCEPT ![k] =
                        [stale EXCEPT !.received = @ + r.amount]]]

\* the body of transactions.forEach: the day's bucket is created on first
\* use, the amount goes to sent or to received, the day's net is recomputed
AddTx(s, r, u) ==
  LET day == DayOf(r.createdAt)
      ds == IF \E i \in DOMAIN s.dateSummary : s.dateSummary[i].date = day
            THEN s.dateSummary
            ELSE Append(s.dateSummary, NewBucket(day))
      k == CHOOSE i \in DOMAIN ds : ds[i].date = day
      b == IF IsSender(r, u) /\ ~IsTopUp(r)
           THEN [ds[k] EXCEPT !.sent = @ + r.amount]
           ELSE [ds[k] EXCEPT !.received = @ + r.amount]
  IN IF IsSender(r, u) /\ ~IsTopUp(r)
     THEN [s EXCEPT !.totalSent = @ + r.amount,
                    !.dateSummary = [ds EXCEPT ![k] =
                        [b EXCEPT !.net = b.received - b.sent]]]
     ELSE [s EXCEPT !.totalReceived = @ + r.amount,
                    !.dateSummary = [ds EXCEPT ![k] =
                        [b EXCEPT !.net = b.received - b.sent]]]

RECURSIVE Aggregate(_, _, _)
Aggregate(s, o, u) ==
  IF o = <<>> THEN [s EXCEPT !.netAmount = s.totalReceived - s.totalSent]
  ELSE Aggregate(AddTx(s, Head(o), u), Tail(o), u)

\* req.user.id, req.params.userId and req.query of the statement
StatementQueries ==
  [caller : {1, 2}, userId : {IdA1, Idb1, IdC1, IdX9},
   startDate : {0, 2}, endDate : {0, 3}]

\* router.get('/user/:userId/statement') behind isFinanceCore
Statement(q) ==
  /\ sres.code = 0
  /\ IF ~IsFinanceCore(q.caller)
     THEN sres' = [NoStatement EXCEPT !.code = 403, !.q = q]
     ELSE IF FindOneByUserId(ToUpperCase(q.userId)) = 0
     THEN sres' = [NoStatement EXCEPT !.code = 404, !.q = q]
     ELSE LET u == FindOneByUserId(ToUpperCase(q.userId))
          IN \E o \in OrderedAsc({ records[i] : i \in { j \in DOMAIN records :
                      /\ records[j].senderId = u \/ records[j].receiverId = u
                      /\ DateClause(records[j], q) } }) :
               sres' = [code |-> 200, summary |-> Aggregate(NoSummary, o, u),
                        transactions |-> o, q |-> q]
  /\ UNCHANGED <<ledgerVars, idVars, onlineUsers, sockEvt, connected, hres,
                 cres, walk, authVars>>

\* -------------------------------------------- GET /history/download
\* the header line, by column
CsvHeader ==
  [dateTime |-> "Date & Time", type |-> "Type", counterparty |-> "Counterparty",
   counterpartyId |-> "Counterparty ID", amount |-> "Amount",
   balanceChange |-> "Balance Change"]

\* replace(/"/g, '""') and the enclosing quotes, on character codes
RECURSIVE Doubled(_)
Doubled(cs) ==
  IF cs = <<>> THEN <<>>
  ELSE (IF Head(cs) = 34 THEN <<34, 34>> ELSE <<Head(cs)>>) \o Doubled(Tail(cs))

Escaped(cs) == <<34>> \o Doubled(cs) \o <<34>>

\* the row classified by the receiver's identifier instead of the sender's
CsvTypeByReceiver(r, u) ==
  IF IsTopUp(r) THEN "Top-Up"
  ELSE IF r.receiverUserId = Users[u].userId THEN "Sent"
  ELSE "Received"

\* isTopUp / isSender of the export
CsvType(r, u) ==
  IF IsTopUp(r) THEN "Top-Up"
  ELSE IF IsSender(r, u) THEN "Sent"
  ELSE "Received"

\* one line of the export; the amount is printed with its sign
CsvRow(r, u) ==
  [dateTime |-> r.createdAt,
   type |-> CsvType(r, u),
   counterparty |-> Escaped(Chars(CASE CsvType(r, u) = "Top-Up" -> "System"
                                    [] CsvType(r, u) = "Sent" -> r.receiverName
                                    [] OTHER -> r.senderName)),
   counterpartyId |-> CASE CsvType(r, u) = "Top-Up" -> <<83, 89, 83, 84, 69, 77>>
                        [] CsvType(r, u) = "Sent" -> r.receiverUserId
                        [] OTHER -> r.senderUserId,
   amount |-> r.amount,
   balanceChange |-> IF CsvType(r, u) = "Sent" THEN 0 - r.amount ELSE r.amount]

\* the export without its header when there is nothing to list
CsvContentBare(o, u) == [i \in DOMAIN o |-> CsvRow(o[i], u)]

\* csvHeader + csvRows: the lines of the file
CsvContent(o, u) == <<CsvHeader>> \o [i \in DOMAIN o |-> CsvRow(o[i], u)]

\* the whereClause of the export, built as in GET /history
DownloadWhere(r, q) == Where(r, q)

\* req.user.id and req.query of the export
DownloadQueries ==
  [user : {1, 3}, search : {<<>>, <<115, 104, 97>>}, startDate : {0, 2},
   endDate : {0, 3}, type : {"", "sent", "received", "topup"}]

\* router.get('/history/download'), for Vendors only
Download(q) ==
  /\ cres.code = 0
  /\ IF Users[q.user].role # "Vendor"
     THEN cres' = [NoDownload EXCEPT !.code = 403, !.q = q]
     ELSE \E o \in OrderedDesc({ records[i] : i \in { j \in DOMAIN records :
                                    DownloadWhere(records[j], q) } }) :
            cres' = [code |-> 200, lines |-> CsvContent(o, q.user),
                     transactions |-> o, q |-> q]
  /\ UNCHANGED <<ledgerVars, idVars, onlineUsers, sockEvt, connected, hres,
                 sres, walk, authVars>>

\* ------------------------------------------ GET /history, page by page
\* Math.ceil(count / limit), for a positive limit
Ceil(a, b) == (a + b - 1) \div b

\* the pagination block of the answer
Pagination(count, q) ==
  [totalPages |-> Ceil(count, LimitOf(q)),
   currentPage |-> PageOf(q),
   totalTransactions |-> count,
   hasNextPage |-> PageOf(q) < Ceil(count, LimitOf(q)),
   hasPrevPage |-> PageOf(q) > 1]

\* the queries of a client that walks the pages of one listing
WalkQueries ==
  [user : {1, 3}, page : {1}, limit : {1, 2}, search : {<<>>},
   startDate : {0}, endDate : {0}, type : {"", "sent"}]

\* one GET /history of the walk: page 1 first, then the next page while the
\* last answer says there is one; every request runs its own query
WalkPage(q) ==
  /\ IF walk = <<>> THEN TRUE
     ELSE /\ q = [walk[1].q EXCEPT !.page = 1]
          /\ walk[Len(walk)].pagination.hasNextPage
  /\ LET qp == [q EXCEPT !.page = Len(walk) + 1]
     IN \E o \in OrderedDesc({ records[i] : i \in { j \in DOMAIN records :
                                    Where(records[j], qp) } }) :
          walk' = Append(walk, [rows |-> PageRows(o, qp),
                                pagination |-> Pagination(Len(o), qp),
                                q |-> qp])
  /\ UNCHANGED <<ledgerVars, idVars, onlineUsers, sockEvt, connected, hres,
                 sres, cres, authVars>>

\* the table is one the handlers have written; no ledger request arrives
ReportsInit ==
  /\ Idle
  /\ records \in ReportTables
  /\ nextId = Len(records) + 1
  /\ nops = MaxOps
  /\ connected = {}
  /\ hres = NoHistory

\* one client is served in a behaviour: a statement, an export or a walk
ReportsNext ==
  \/ cres.code = 0 /\ walk = <<>> /\ \E q \in StatementQueries : Statement(q)
  \/ sres.code = 0 /\ walk = <<>> /\ \E q \in DownloadQueries : Download(q)
  \/ sres.code = 0 /\ cres.code = 0 /\ \E q \in WalkQueries : WalkPage(q)

SpecReports == ReportsInit /\ [][ReportsNext]_vars

\* -------------------------------------------------------- auth routes
MaxAuthOps == 3        \* auth requests served in one behaviour
MaxTime == 3           \* the clock stops here

OtpTtl == 1            \* the ten minutes an OTP lives, in clock ticks

\* the values Math.random may give the OTP
Otps == {1, 2}

IssueRoutes == {"request-otp", "forgot-password", "forgot-spin-otp"}

ConsumeRoutes == {"complete-registration", "reset-password", "reset-spin"}

\* the routes behind authMiddleware: req.user.id comes from the token
TokenRoutes == {"forgot-spin-otp", "reset-spin"}

\* the bodies sent: an OTP, a new password 2, a new S-Pin 2 or, for 0, one
\* shorter than four digits
AuthReqs ==
  [route : IssueRoutes, user : AuthUsers, otp : {0}, password : {0}, sPin : {0}]
    \cup [route : {"complete-registration"}, user : AuthUsers, otp : Otps,
          password : {2}, sPin : {0, 2}]
    \cup [route : {"reset-password"}, user : AuthUsers, otp : Otps,
          password : {2}, sPin : {0}]
    \cup [route : {"reset-spin"}, user : AuthUsers, otp : Otps,
          password : {0}, sPin : {2}]

\* user.otp !== otp || user.otpExpiry < Date.now(); a null expiry compares as 0
OtpRejected(row, otp) == row.otp # otp \/ row.otpExpiry < now

\* the checks a route makes before it writes: the status it answers, or 0
Refusal(r) ==
  CASE r.route = "request-otp" ->
         IF acct[r.user].password # 0 THEN 400 ELSE 0
    [] r.route = "complete-registration" ->
         IF r.sPin = 0 THEN 400
         ELSE IF OtpRejected(acct[r.user], r.otp) THEN 400 ELSE 0
    [] r.route \in {"reset-password", "reset-spin"} ->
         IF OtpRejected(acct[r.user], r.otp) THEN 400 ELSE 0
    [] OTHER -> 0

\* the request presents the OTP a call has succeeded with, and no OTP was
\* issued to the account since
PresentsSpent(r) ==
  r.route \in ConsumeRoutes /\ r.otp # 0 /\ spent[r.user] = r.otp

\* the request is received, the row is loaded and the checks are made
AuthBegin(p, r) ==
  /\ apc[p] = "idle"
  /\ anops < MaxAuthOps
  /\ r.route \in TokenRoutes => acct[r.user].password # 0
  /\ anops' = anops + 1
  /\ aresp' = [aresp EXCEPT ![p] = [code |-> Refusal(r), req |-> r,
                                    afterUse |-> PresentsSpent(r)]]
  /\ IF Refusal(r) # 0
     THEN UNCHANGED <<apc, areq, asnap>>
     ELSE /\ apc' = [apc EXCEPT ![p] =
                       IF r.route \in IssueRoutes THEN "issue" ELSE "consume"]
          /\ areq' = [areq EXCEPT ![p] = r]
          /\ asnap' = [asnap EXCEPT ![p] = acct[r.user].otp]
  /\ UNCHANGED <<acct, spent, now>>
  /\ UNCHANGED <<ledgerVars, idVars, onlineUsers, sockEvt, connected, hres,
                 reportVars>>

\* user.otp = otp; user.otpExpiry = Date.now() + 10 min; user.save(): the
\* UPDATE names the fields whose value changed on the instance
Issued(row, old, otp) ==
  [row EXCEPT !.otp = IF otp # old THEN otp ELSE @, !.otpExpiry = now + OtpTtl]

AuthIssue(p) ==
  /\ apc[p] = "issue"
  /\ \E o \in Otps :
       acct' = [acct EXCEPT ![areq[p].user] = Issued(@, asnap[p], o)]
  /\ spent' = [spent EXCEPT ![areq[p].user] = 0]
  /\ aresp' = [aresp EXCEPT ![p].code = 200]
  /\ apc' = [apc EXCEPT ![p] = "idle"]
  /\ areq' = [areq EXCEPT ![p] = NoAuthReq]
  /\ asnap' = [asnap EXCEPT ![p] = 0]
  /\ UNCHANGED <<anops, now>>
  /\ UNCHANGED <<ledgerVars, idVars, onlineUsers, sockEvt, connected, hres,
                 reportVars>>

\* the hashes the route stores
WithCredentials(row, r) ==
  CASE r.route = "complete-registration" ->
         [row EXCEPT !.password = r.password, !.sPin = r.sPin]
    [] r.route = "reset-password" -> [row EXCEPT !.password = r.password]
    [] OTHER -> [row EXCEPT !.sPin = r.sPin]

\* a save that leaves the OTP columns as they are
AfterUseKept(row) == row

\* user.otp = null; user.otpExpiry = null
AfterUse(row) == [row EXCEPT !.otp = 0, !.otpExpiry = 0]

\* bcrypt.hash, the assignments and user.save()
AuthConsume(p) ==
  /\ apc[p] = "consume"
  /\ acct' = [acct EXCEPT ![areq[p].user] = AfterUse(WithCredentials(@, areq[p]))]
  /\ spent' = [spent EXCEPT ![areq[p].user] = areq[p].otp]
  /\ aresp' = [aresp EXCEPT ![p].code =
                 IF areq[p].route = "complete-registration" THEN 201 ELSE 200]
  /\ apc' = [apc EXCEPT ![p] = "idle"]
  /\ areq' = [areq EXCEPT ![p] = NoAuthReq]
  /\ asnap' = [asnap EXCEPT ![p] = 0]
  /\ UNCHANGED <<anops, now>>
  /\ UNCHANGED <<ledgerVars, idVars, onlineUsers, sockEvt, connected, hres,
                 reportVars>>

\* time passes
Tick ==
  /\ now < MaxTime
  /\ now' = now + 1
  /\ UNCHANGED <<acct, apc, areq, asnap, aresp, spent, anops>>
  /\ UNCHANGED <<ledgerVars, idVars, onlineUsers, sockEvt, connected, hres,
                 reportVars>>

\* no ledger request arrives while the auth routes are called
AuthInit ==
  /\ Idle
  /\ records = <<>> /\ nextId = 1
  /\ nops = MaxOps
  /\ connected = {}
  /\ hres = NoHistory

AuthNext ==
  \/ \E p \in AuthProc, r \in AuthReqs : AuthBegin(p, r)
  \/ \E p \in AuthProc : AuthIssue(p)
  \/ \E p \in AuthProc : AuthConsume(p)
  \/ Tick

SpecAuth == AuthInit /\ [][AuthNext]_vars

\* ======================================================================
\* Properties
\* ======================================================================
RECURSIVE SumBalances(_, _)
SumBalances(d, n) == IF n = 0 THEN 0 ELSE d[n] + SumBalances(d, n - 1)

TotalBalance(d) == SumBalances(d, Len(d))

\* an identifier resolves when some account carries it, whatever the case
Resolves(id) == \E u \in UserIds : Users[u].userId = ToUpperCase(id)

AccountOf(id) == CHOOSE u \in UserIds : Users[u].userId = ToUpperCase(id)

\* the handler of p takes a step
Steps(p) == pc'[p] # pc[p] \/ idx'[p] # idx[p]

\* the step commits nothing
NothingCommitted == db' = db /\ records' = records

\* both requests were answered 200 and were in flight at the same time
BothCommitted(p, q) ==
  /\ p # q
  /\ resp[p].code = 200 /\ resp[q].code = 200
  /\ ~resp[p].alone /\ ~resp[q].alone
  /\ resp[p].pre = resp[q].pre

\* C1: two /send calls of one sender that overlap, each for an amount the
\* balance covers but together for more than the balance, never both
\* answer 200.
C1_NoDoubleSpend ==
  \A p, q \in Proc :
    ~ ( /\ BothCommitted(p, q)
        /\ resp[p].req.kind = "send" /\ resp[q].req.kind = "send"
        /\ resp[p].req.user = resp[q].req.user
        /\ resp[p].req.amount <= resp[p].pre[resp[p].req.user]
        /\ resp[q].req.amount <= resp[p].pre[resp[p].req.user]
        /\ resp[p].req.amount + resp[q].req.amount > resp[p].pre[resp[p].req.user] )

\* C2: the sum of all balances is the provisioned sum plus the committed
\* top-ups, whatever transfers and group transfers have run.
C2_Conservation == TotalBalance(db) = TotalBalance(InitBalance) + toppedUp

\* C3: no committed balance is negative.
C3_NonNegative == \A u \in UserIds : db[u] >= 0

\* what a committed /send or /topup adds to the balance of account u
Delta(r, u) ==
  IF r.kind = "topup" THEN (IF u = r.user THEN r.amount ELSE 0)
  ELSE (IF u = AccountOf(r.receiverId) THEN r.amount ELSE 0)
       - (IF u = r.user THEN r.amount ELSE 0)

\* C4: when two overlapping /send or /topup calls with positive amounts both
\* commit, every balance ends at its value before both plus both deltas.
C4_NoLostUpdate ==
  \A p, q \in Proc :
    ( /\ BothCommitted(p, q)
      /\ resp[p].req.kind \in {"send", "topup"}
      /\ resp[q].req.kind \in {"send", "topup"}
      /\ resp[p].req.amount > 0 /\ resp[q].req.amount > 0 )
    => \A u \in UserIds :
         db[u] = resp[p].pre[u] + Delta(resp[p].req, u) + Delta(resp[q].req, u)

\* C5: a /send that runs with no other request in flight and answers 200
\* leaves the sender at its balance before minus the amount, the receiver at
\* its balance before plus the amount, and returns the sender's committed
\* balance as newBalance.
C5_TransferEffect ==
  [][ \A p \in Proc :
        ( /\ req[p].kind = "send" /\ alone[p]
          /\ resp'[p].code = 200 )
        => LET s == req[p].user
               r == AccountOf(req[p].receiverId)
               a == req[p].amount
           IN /\ Resolves(req[p].receiverId) /\ s # r
              /\ db'[s] = pre[p][s] - a
              /\ db'[r] = pre[p][r] + a
              /\ \A u \in UserIds \ {s, r} : db'[u] = pre[p][u]
              /\ resp'[p].newBalance = db'[s] ]_vars

C5_Witness ==
  \E p \in Proc :
    /\ resp[p].code = 200 /\ resp[p].req.kind = "send" /\ resp[p].alone
    /\ resp[p].req.amount = 1
    /\ db[resp[p].req.user] = resp[p].pre[resp[p].req.user] - 1

\* C6: a /send whose amount exceeds the sender's balance is rejected by the
\* step that reads the balance; that step commits nothing and leaves nothing
\* pending.
C6_InsufficientRejected ==
  [][ \A p \in Proc :
        ( /\ pc[p] = "send" /\ Steps(p)
          /\ req[p].amount > db[req[p].user] )
        => /\ pc'[p] = "idle" /\ resp'[p].code \notin {0, 200}
           /\ NothingCommitted
           /\ wr'[p] = <<>> /\ tx'[p] = <<>> ]_vars

C6_Witness ==
  \E p \in Proc :
    /\ resp[p].code = 500 /\ resp[p].message = "Insufficient balance"
    /\ db = InitBalance /\ records = <<>>

\* C7: a /send-group naming an identifier that resolves to no account never
\* commits: each of its steps leaves the balances and the records as they
\* are and nothing pending, and it is never answered 200.
C7_MissingReceiverFailsWhole ==
  [][ \A p \in Proc :
        ( /\ req[p].kind = "group" /\ Steps(p)
          /\ \E i \in DOMAIN req[p].recipients :
               ~Resolves(req[p].recipients[i].receiverId) )
        => /\ resp'[p].code # 200
           /\ NothingCommitted
           /\ wr'[p] = <<>> /\ tx'[p] = <<>> ]_vars

C7_Witness ==
  \E p \in Proc :
    /\ resp[p].code = 500 /\ resp[p].message = "Receiver(s) not found"
    /\ Len(resp[p].missing) = 1
    /\ db = InitBalance /\ records = <<>>

\* C8: a /send-group whose amounts sum to more than the sender's balance is
\* rejected by the step that reads the balance, also when no single amount
\* exceeds it; that step commits nothing and leaves nothing pending.
C8_TotalChecked ==
  [][ \A p \in Proc :
        ( /\ pc[p] = "group" /\ Steps(p)
          /\ TotalAmount(req[p].recipients) > db[req[p].user] )
        => /\ pc'[p] = "idle" /\ resp'[p].code \notin {0, 200}
           /\ NothingCommitted
           /\ wr'[p] = <<>> /\ tx'[p] = <<>> ]_vars

C8_Witness ==
  \E p \in Proc :
    /\ resp[p].code = 500
    /\ resp[p].message = "Insufficient balance for group transaction"
    /\ db = InitBalance /\ records = <<>>

\* the records a request creates when it commits
RecordCount(r) == IF r.kind = "group" THEN Len(r.recipients) ELSE 1

\* the rows a request updates when it commits
RowsUpdated(r) ==
  IF r.kind = "topup" THEN (IF r.amount # 0 THEN {r.user} ELSE {})
  ELSE IF r.kind = "send"
  THEN (IF r.amount # 0 THEN {r.user, AccountOf(r.receiverId)} ELSE {})
  ELSE { AccountOf(r.recipients[i].receiverId) : i \in DOMAIN r.recipients }
         \cup (IF TotalAmount(r.recipients) # 0 THEN {r.user} ELSE {})

\* C9: a step that changes a committed balance or the committed records is
\* the COMMIT of one request, answered 200, and brings all of the request's
\* row updates and all of its records at once; every other step, a failing
\* store statement included, commits nothing.
C9_Atomic ==
  [][ ~NothingCommitted
        => \E p \in Proc :
             /\ pc[p] \in {"send_commit", "topup_commit", "group_commit"}
             /\ resp'[p].code = 200
             /\ DOMAIN wr[p] = RowsUpdated(req[p])
             /\ Len(tx[p]) = RecordCount(req[p])
             /\ db' = CommitRows(db, wr[p])
             /\ records' = records \o tx[p] ]_vars

C9_Witness ==
  \E p \in Proc :
    /\ resp[p].code = 500 /\ resp[p].message = "group_saveSender"
    /\ db = InitBalance /\ records = <<>>

\* C10: no /send with a zero or negative amount is answered 200.
C10_NonPositiveRejected ==
  \A p \in Proc :
    (resp[p].code = 200 /\ resp[p].req.kind = "send") => resp[p].req.amount > 0

\* C11: no /send-group whose list carries a zero or negative amount is
\* answered 200, whatever the sum of the list.
C11_GroupAmountsPositive ==
  \A p \in Proc :
    (resp[p].code = 200 /\ resp[p].req.kind = "group")
    => \A i \in DOMAIN resp[p].req.recipients :
         resp[p].req.recipients[i].amount > 0

\* C12: no /topup with a zero or negative amount is answered 200.
C12_TopupPositive ==
  \A p \in Proc :
    (resp[p].code = 200 /\ resp[p].req.kind = "topup") => resp[p].req.amount > 0

\* C13: a /send whose receiverId names the caller's own account, in any
\* letter case, never commits: each of its steps leaves the balances and the
\* records as they are and nothing pending, and it is never answered 200.
C13_SelfTransferRejected ==
  [][ \A p \in Proc :
        ( /\ req[p].kind = "send" /\ Steps(p)
          /\ Resolves(req[p].receiverId)
          /\ AccountOf(req[p].receiverId) = req[p].user )
        => /\ resp'[p].code # 200
           /\ NothingCommitted
           /\ wr'[p] = <<>> /\ tx'[p] = <<>> ]_vars

C13_Witness ==
  \E p \in Proc :
    /\ resp[p].code = 500 /\ resp[p].message = "Cannot send money to yourself"
    /\ db = InitBalance /\ records = <<>>

\* C14: every committed record whose sender and receiver are the same
\* account is a top-up's: it carries the top-up's fixed sender identifier.
C14_SelfRecordIsTopup ==
  \A i \in DOMAIN records :
    records[i].senderId = records[i].receiverId
    => records[i].senderUserId = FinanceTopup

\* the account a /topup body names, the caller's own when it names none
NamedTarget(r) ==
  IF r.receiverId # <<>> /\ Resolves(r.receiverId)
  THEN AccountOf(r.receiverId) ELSE r.user

\* C15 as stated: a /topup that runs with no other request in flight and
\* answers 200 adds the amount to the balance of the account the request
\* names as its target and leaves every other balance, the caller's
\* included, as it was.
C15_TargetCredited ==
  [][ \A p \in Proc :
        ( /\ req[p].kind = "topup" /\ alone[p]
          /\ resp'[p].code = 200 )
        => LET t == NamedTarget(req[p]) IN
           /\ db'[t] = pre[p][t] + req[p].amount
           /\ \A u \in UserIds \ {t} : db'[u] = pre[p][u] ]_vars

\* C15: a /topup that runs with no other request in flight and answers 200
\* adds the amount to the caller's own balance, whatever account the body
\* names, leaves every other balance as it was, and returns the caller's
\* committed balance as newBalance.
C15_CallerCredited ==
  [][ \A p \in Proc :
        ( /\ req[p].kind = "topup" /\ alone[p]
          /\ resp'[p].code = 200 )
        => LET c == req[p].user IN
           /\ db'[c] = pre[p][c] + req[p].amount
           /\ \A u \in UserIds \ {c} : db'[u] = pre[p][u]
           /\ resp'[p].newBalance = db'[c] ]_vars

C15_Witness ==
  \E p \in Proc :
    /\ resp[p].code = 200 /\ resp[p].req.kind = "topup" /\ resp[p].alone
    /\ resp[p].req.amount = 1
    /\ NamedTarget(resp[p].req) # resp[p].req.user
    /\ db[resp[p].req.user] = resp[p].pre[resp[p].req.user] + 1

\* C16: every committed record of a top-up is self-referential, carries the
\* fixed sender name and identifier, and has type TOPUP.
C16_TopupRecordTagged ==
  \A i \in DOMAIN records :
    records[i].senderUserId = FinanceTopup
    => /\ records[i].senderId = records[i].receiverId
       /\ records[i].senderName = FinanceName
       /\ records[i].type = "TOPUP"

\* the request's S-Pin is absent, differs from the caller's stored one, or
\* the caller has none stored
PinFails(r) ==
  \/ r.sPin = 0
  \/ Users[r.user].sPin = 0
  \/ r.sPin # Users[r.user].sPin

\* C17: the first step of a /send, /send-group or /topup whose S-Pin fails
\* answers 400, 401 or 403, commits nothing and leaves nothing pending; and a
\* step that changes a committed balance is the COMMIT of a request whose
\* S-Pin matched.
C17_PinGate ==
  [][ /\ \A p \in Proc :
           ( /\ pc[p] \in {"send", "topup", "group"} /\ Steps(p)
             /\ PinFails(req[p]) )
           => /\ pc'[p] = "idle" /\ resp'[p].code \in {400, 401, 403}
              /\ NothingCommitted
              /\ wr'[p] = <<>> /\ tx'[p] = <<>>
      /\ db' # db
           => \E p \in Proc :
                /\ pc[p] \in {"send_commit", "topup_commit", "group_commit"}
                /\ ~PinFails(req[p])
                /\ db' = CommitRows(db, wr[p]) ]_vars

C17_Witness ==
  \E p, q \in Proc :
    /\ resp[p].code = 401 /\ resp[p].message = "invalid"
    /\ resp[q].code = 400 /\ resp[q].message = "S-Pin is required"
    /\ db = InitBalance /\ records = <<>>

\* C18: a /topup by a caller who is not Finance Core is answered 403 by its
\* first step, before any ledger statement: the step commits nothing and
\* leaves nothing pending.
C18_TopupNeedsFinanceCore ==
  [][ \A p \in Proc :
        ( /\ pc[p] = "topup" /\ Steps(p)
          /\ ~ ( \/ Users[req[p].user].role = "Finance Core"
                 \/ /\ Users[req[p].user].role = "Core"
                    /\ Users[req[p].user].department = "Finance" ) )
        => /\ pc'[p] = "idle" /\ resp'[p].code = 403
           /\ NothingCommitted
           /\ wr'[p] = <<>> /\ tx'[p] = <<>> ]_vars

C18_Witness ==
  \E p \in Proc :
    /\ resp[p].code = 403
    /\ resp[p].message = "Forbidden: Access is restricted to Finance Core members."
    /\ db = InitBalance /\ records = <<>>

\* C19: the step that answers a request adds one record for a /send, one
\* for a /topup and one per recipient for a /send-group when it answers 200,
\* and no record and no balance change otherwise; a step that changes a
\* balance adds a record, and a step that adds a record commits the balance
\* updates of the same request.
C19_RecordsMatchCommits ==
  [][ /\ \A p \in Proc :
           (Steps(p) /\ pc'[p] = "idle")
           => IF resp'[p].code = 200
              THEN /\ Len(records') = Len(records) + RecordCount(req[p])
                   /\ \A i \in (Len(records) + 1)..Len(records') :
                        /\ records'[i].senderId = req[p].user
                        /\ records'[i].amount =
                             IF req[p].kind = "group"
                             THEN req[p].recipients[i - Len(records)].amount
                             ELSE req[p].amount
              ELSE NothingCommitted
      /\ db' # db => Len(records') > Len(records)
      /\ records' # records
           => \E p \in Proc :
                /\ Steps(p) /\ resp'[p].code = 200
                /\ \A r \in RowsUpdated(req[p]) :
                     r \in DOMAIN wr[p] /\ db'[r] = wr[p][r] ]_vars

C19_Witness ==
  \E p \in Proc :
    /\ resp[p].code = 200 /\ resp[p].req.kind = "group"
    /\ Len(resp[p].req.recipients) = 2
    /\ Len(records) = 2
    /\ db # InitBalance

\* C20: every step keeps the committed records as they are, in their order,
\* and at most adds records after them.
C20_AppendOnly ==
  [][ /\ Len(records') >= Len(records)
      /\ SubSeq(records', 1, Len(records)) = records ]_vars

C20_Witness ==
  \E p, q \in Proc :
    /\ p # q
    /\ resp[p].code = 200 /\ resp[q].code = 200
    /\ Len(records) >= 2
    /\ records[1].senderId = records[2].senderId
    /\ records[1].receiverId = records[2].receiverId

\* the sum of the amounts a recipients list addresses to account u
RECURSIVE Addressed(_, _)
Addressed(l, u) ==
  IF l = <<>> THEN 0
  ELSE (IF Resolves(l[1].receiverId) /\ AccountOf(l[1].receiverId) = u
        THEN l[1].amount ELSE 0) + Addressed(Tail(l), u)

\* C22: a /send-group that runs with no other request in flight and answers
\* 200 leaves the sender debited by the sum of the amounts, every account
\* credited by the sum of the amounts addressed to it, and adds one record
\* per recipient, the i-th naming the i-th receiver and amount.
C22_GroupEffect ==
  [][ \A p \in Proc :
        ( /\ req[p].kind = "group" /\ alone[p]
          /\ resp'[p].code = 200 )
        => LET l == req[p].recipients
               s == req[p].user
           IN /\ \A u \in UserIds :
                   db'[u] = pre[p][u] + Addressed(l, u)
                              - (IF u = s THEN TotalAmount(l) ELSE 0)
              /\ Len(records') = Len(records) + Len(l)
              /\ \A i \in DOMAIN l :
                   /\ records'[Len(records) + i].senderId = s
                   /\ records'[Len(records) + i].receiverId = AccountOf(l[i].receiverId)
                   /\ records'[Len(records) + i].amount = l[i].amount ]_vars

\* the identifiers of a recipients list that resolve to no account, as the
\* handler compares them (upper case)
Unresolved(l) ==
  { ToUpperCase(l[i].receiverId) : i \in { j \in DOMAIN l : ~Resolves(l[j].receiverId) } }

\* C23: the step of a /send-group that finds receivers missing answers one
\* error whose list holds every identifier of the request that resolves to
\* no account, one entry per such position of the input, and no identifier
\* that resolves.
C23_AllMissingReported ==
  [][ \A p \in Proc :
        ( /\ pc[p] = "group_findAll" /\ Steps(p)
          /\ resp'[p].message = "Receiver(s) not found" )
        => LET l == req[p].recipients
               m == resp'[p].missing
           IN /\ Unresolved(l) # {}
              /\ { m[i] : i \in DOMAIN m } = Unresolved(l)
              /\ Len(m) = Cardinality({ j \in DOMAIN l : ~Resolves(l[j].receiverId) }) ]_vars

C23_Witness ==
  \E p \in Proc :
    /\ resp[p].code = 500 /\ resp[p].message = "Receiver(s) not found"
    /\ resp[p].missing = << IdX9, IdY8 >>
    /\ db = InitBalance /\ records = <<>>

\* C24: every event handed to the dispatcher carries the id of a committed
\* record, or of a record of a request that is still being served.
C24_EmitOnlyCommitted ==
  \A i \in DOMAIN emitted :
    \/ \E j \in DOMAIN records : records[j].id = emitted[i].id
    \/ \E p \in Proc : \E j \in DOMAIN tx[p] : tx[p][j].id = emitted[i].id

\* C25: a request whose notification raises is still answered 200 and its
\* records are committed by that step.
C25_NotifyFailureHarmless ==
  [][ \A p \in Proc :
        (Steps(p) /\ resp'[p].message = "emit")
        => /\ resp'[p].code = 200
           /\ Len(records') > Len(records) ]_vars

\* the socket the registry holds for a userId, 0 when it holds none; read
\* off the entries
Holds(reg, uid, sck) ==
  \E i \in DOMAIN reg : reg[i].userId = uid /\ reg[i].socket = sck

\* C26: the registry holds at most one entry per userId; join_room(u) on
\* socket s leaves u mapped to s; and an entry u -> s goes away or changes
\* only by a join_room for u or by the disconnect of s itself, so the
\* disconnect of another socket that had joined u leaves it alone.
C26_LastJoinWins ==
  [][ /\ \A i, j \in DOMAIN onlineUsers' :
           onlineUsers'[i].userId = onlineUsers'[j].userId => i = j
      /\ (sockEvt' # sockEvt /\ sockEvt'.type = "join_room")
           => Holds(onlineUsers', sockEvt'.userId, sockEvt'.socket)
      /\ \A uid \in JoinIds, sck \in Sockets :
           (Holds(onlineUsers, uid, sck) /\ ~Holds(onlineUsers', uid, sck))
           => /\ sockEvt' # sockEvt
              /\ \/ sockEvt'.type = "join_room" /\ sockEvt'.userId = uid
                 \/ sockEvt'.type = "disconnect" /\ sockEvt'.socket = sck ]_vars

C26_Witness ==
  /\ sockEvt.type = "disconnect" /\ sockEvt.socket = 1 /\ sockEvt.n = 3
  /\ connected = {2}
  /\ Holds(onlineUsers, Users[2].userId, 2)

\* the userId of the account the k-th record of a request credits
NotifiedUserId(r, k) ==
  Users[AccountOf(IF r.kind = "group" THEN r.recipients[k].receiverId
                  ELSE r.receiverId)].userId

\* C27: an event is sent only by the step that creates its record, to the
\* socket the registry holds for the receiver at that step, and to nobody
\* when it holds none; no socket event sends one; and a /send answered 200
\* has the same balances, record and newBalance whatever the registry held.
C27_DroppedWhenOffline ==
  [][ /\ \A i \in DOMAIN emitted' :
           i > Len(emitted)
           => /\ emitted'[i].to \in Sockets
              /\ emitted'[i].id \in nextId..(nextId' - 1)
              /\ \E p \in Proc :
                   /\ pc[p] \in {"send_create", "group_bulkCreate"}
                   /\ Holds(onlineUsers,
                            NotifiedUserId(req[p], emitted'[i].id - nextId + 1),
                            emitted'[i].to)
      /\ Len(emitted') >= Len(emitted)
      /\ SubSeq(emitted', 1, Len(emitted)) = emitted
      /\ sockEvt' # sockEvt => emitted' = emitted
      /\ \A p \in Proc :
           (req[p].kind = "send" /\ resp'[p].code = 200)
           => LET sd == req[p].user
                  rc == AccountOf(req[p].receiverId)
                  a == req[p].amount
              IN /\ db'[sd] = pre[p][sd] - a
                 /\ db'[rc] = pre[p][rc] + a
                 /\ Len(records') = Len(records) + 1
                 /\ records'[Len(records')].senderId = sd
                 /\ records'[Len(records')].receiverId = rc
                 /\ records'[Len(records')].amount = a
                 /\ resp'[p].newBalance = db'[sd] ]_vars

C27_Witness ==
  \E p \in Proc :
    /\ resp[p].code = 200 /\ resp[p].req.kind = "send"
    /\ Len(records) = 1 /\ emitted = <<>>
    /\ sockEvt.type = "join_room"
    /\ sockEvt.userId = records[1].receiverUserId
    /\ Holds(onlineUsers, records[1].receiverUserId, sockEvt.socket)

\* the rows of an answer, as a set
RowSet(h) == { h.rows[i] : i \in DOMAIN h.rows }

\* the records of the table that name account u as sender or as receiver
PartyRecords(u) ==
  { records[i] : i \in { j \in DOMAIN records :
                           records[j].senderId = u \/ records[j].receiverId = u } }

\* the query carries no search, no complete date range and no type
Unfiltered(q) ==
  q.search = <<>> /\ q.type = "" /\ (q.startDate = 0 \/ q.endDate = 0)

\* the answer is the first page and nothing was cut off by the limit
WholeResult(h) == h.code = 200 /\ h.q.page = 0 /\ Len(h.rows) = h.count

\* the fields of a record as the handlers write them from the accounts
AsCreated(r) ==
  /\ r.receiverName = Users[r.receiverId].name
  /\ r.receiverUserId = Users[r.receiverId].userId
  /\ \/ r.senderName = Users[r.senderId].name /\ r.senderUserId = Users[r.senderId].userId
     \/ r.senderName = FinanceName /\ r.senderUserId = FinanceTopup
  /\ r.amount = 1 /\ r.type = "TRANSFER"

Sent(u) == { r \in PartyRecords(u) : r.senderId = u /\ r.receiverId # u }
Received(u) == { r \in PartyRecords(u) : r.receiverId = u /\ r.senderId # u }
Topups(u) == { r \in PartyRecords(u) : r.senderId = u /\ r.receiverId = u }

\* C28: with no search and no date range, the 'sent' filter counts and
\* returns exactly the records sent by the account to another one,
\* 'received' exactly those received from another one, 'topup' exactly
\* those from the account to itself; the three sets are pairwise disjoint
\* and together are the account's records.
C28_TypeFilters ==
  ( /\ hres.code = 200 /\ hres.q.search = <<>>
    /\ (hres.q.startDate = 0 \/ hres.q.endDate = 0)
    /\ hres.q.type \in {"sent", "received", "topup"} )
  => LET u == hres.q.user
         want == CASE hres.q.type = "sent" -> Sent(u)
                   [] hres.q.type = "received" -> Received(u)
                   [] OTHER -> Topups(u)
     IN /\ hres.count = Cardinality(want)
        /\ RowSet(hres) \subseteq want
        /\ WholeResult(hres) => RowSet(hres) = want
        /\ Sent(u) \cap Received(u) = {} /\ Sent(u) \cap Topups(u) = {}
        /\ Received(u) \cap Topups(u) = {}
        /\ Sent(u) \cup Received(u) \cup Topups(u) = PartyRecords(u)

C28_Witness ==
  /\ WholeResult(hres) /\ hres.q.type = "sent" /\ hres.q.search = <<>>
  /\ hres.q.user = 1 /\ Len(hres.rows) = 1
  /\ Topups(1) # {} /\ Received(1) # {}

\* C29: every row of every answer, whatever search, date range, type, page
\* and limit the query carries, is a record of the table that names the
\* asking account as sender or as receiver.
C29_OwnRecordsOnly ==
  hres.code = 200
  => \A i \in DOMAIN hres.rows :
       /\ hres.rows[i] \in PartyRecords(hres.q.user)
       /\ hres.rows[i].senderId = hres.q.user \/ hres.rows[i].receiverId = hres.q.user

C29_Witness ==
  /\ hres.code = 200 /\ hres.q.search # <<>> /\ hres.q.type = "received"
  /\ hres.q.startDate # 0 /\ hres.q.endDate # 0
  /\ hres.rows # <<>>
  /\ \E i \in DOMAIN records :
       /\ records[i].senderId # hres.q.user /\ records[i].receiverId # hres.q.user
       /\ SearchClause(records[i], hres.q.search)
       /\ DateClause(records[i], hres.q)

\* C30: no answer holds more rows than the default page size, whatever
\* limit the query asks for.
C30_PageBounded == Len(hres.rows) <= DefaultLimit

\* the sum of the amounts of a sequence of records
RECURSIVE SumAmounts(_)
SumAmounts(o) == IF o = <<>> THEN 0 ELSE Head(o).amount + SumAmounts(Tail(o))

\* the sums of the received and of the sent columns of the day buckets
RECURSIVE SumReceived(_)
SumReceived(ds) == IF ds = <<>> THEN 0 ELSE Head(ds).received + SumReceived(Tail(ds))

RECURSIVE SumSent(_)
SumSent(ds) == IF ds = <<>> THEN 0 ELSE Head(ds).sent + SumSent(Tail(ds))

\* the records of a statement that fall on a calendar day
OfDay(o, day) == SelectSeq(o, LAMBDA r : DayOf(r.createdAt) = day)

\* C31: in every statement the two totals together are the sum of the
\* amounts of the listed records (each record is counted once, as received
\* or as sent), each total is the sum of its column over the day buckets,
\* there is one bucket per calendar day that has a record and its two
\* columns together are the amounts of that day, every bucket's net is its
\* received minus its sent, netAmount is totalReceived minus totalSent, and
\* a statement over no records has no bucket and zero totals.
C31_StatementAggregation ==
  sres.code = 200
  => LET s == sres.summary
         o == sres.transactions
     IN /\ s.totalReceived + s.totalSent = SumAmounts(o)
        /\ s.totalReceived >= 0 /\ s.totalSent >= 0
        /\ s.totalReceived = SumReceived(s.dateSummary)
        /\ s.totalSent = SumSent(s.dateSummary)
        /\ \A i, j \in DOMAIN s.dateSummary :
             s.dateSummary[i].date = s.dateSummary[j].date => i = j
        /\ { s.dateSummary[i].date : i \in DOMAIN s.dateSummary }
             = { DayOf(o[i].createdAt) : i \in DOMAIN o }
        /\ \A i \in DOMAIN s.dateSummary :
             LET b == s.dateSummary[i]
             IN /\ b.received + b.sent = SumAmounts(OfDay(o, b.date))
                /\ b.net = b.received - b.sent
        /\ s.netAmount = s.totalReceived - s.totalSent
        /\ o = <<>> => (s.dateSummary = <<>> /\ s.totalReceived = 0
                        /\ s.totalSent = 0 /\ s.netAmount = 0)

C31_Witness ==
  /\ sres.code = 200 /\ Len(sres.summary.dateSummary) = 2
  /\ sres.summary.totalSent > 0 /\ sres.summary.totalReceived > 0
  /\ \E i \in DOMAIN sres.summary.dateSummary :
       /\ sres.summary.dateSummary[i].received > 0
       /\ sres.summary.dateSummary[i].sent > 0

\* the records of the table the export's filter selects
Selected(q) ==
  { records[i] : i \in { j \in DOMAIN records : Where(records[j], q) } }

\* newest first: createdAt never grows along the sequence
NewestFirst(o) ==
  \A i, j \in DOMAIN o : i < j => o[i].createdAt >= o[j].createdAt

\* C32: an export has the header as its first line and then one line per
\* record the filter selects, each record once, in the newest-first order
\* of the query, every line carrying its record's time and amount; with no
\* selected record the header is the only line.
C32_CsvRows ==
  cres.code = 200
  => LET o == cres.transactions
     IN /\ cres.lines # <<>> /\ cres.lines[1].type = "Type"
        /\ Len(cres.lines) = 1 + Cardinality(Selected(cres.q))
        /\ { o[i] : i \in DOMAIN o } = Selected(cres.q)
        /\ Len(o) = Cardinality(Selected(cres.q))
        /\ NewestFirst(o)
        /\ \A i \in DOMAIN o :
             /\ cres.lines[i + 1].type \in {"Top-Up", "Sent", "Received"}
             /\ cres.lines[i + 1].dateTime = o[i].createdAt
             /\ cres.lines[i + 1].amount = o[i].amount
        /\ Selected(cres.q) = {} => cres.lines = <<CsvHeader>>

C32_Witness ==
  /\ cres.code = 200 /\ Len(cres.lines) = 3
  /\ cres.lines[2].dateTime > cres.lines[3].dateTime
  /\ Len(records) = 3

\* C36: every line of a vendor's export is typed 'Top-Up' exactly when the
\* 'topup' filter of the history selects its record for that vendor, 'Sent'
\* exactly when the 'sent' filter does and 'Received' exactly when the
\* 'received' filter does.
C36_SameClassification ==
  cres.code = 200
  => \A i \in DOMAIN cres.transactions :
       LET r == cres.transactions[i]
           line == cres.lines[i + 1]
       IN /\ line.type = "Top-Up" <=> TypeClause(r, [cres.q EXCEPT !.type = "topup"])
          /\ line.type = "Sent" <=> TypeClause(r, [cres.q EXCEPT !.type = "sent"])
          /\ line.type = "Received"
               <=> TypeClause(r, [cres.q EXCEPT !.type = "received"])

C36_Witness ==
  /\ cres.code = 200 /\ cres.q.type = ""
  /\ \E i, j \in DOMAIN cres.lines :
       cres.lines[i].type = "Sent" /\ cres.lines[j].type = "Received"

\* the rows of the pages of a walk, one after the other
RECURSIVE Concat(_)
Concat(w) == IF w = <<>> THEN <<>> ELSE Head(w).rows \o Concat(Tail(w))

\* C37: when a client has fetched the pages 1..totalPages of one listing,
\* the rows of the pages together are the matching records, each once and
\* newest first, and on every page totalPages is ceil(count / L),
\* hasNextPage says page < totalPages and hasPrevPage says page > 1.
C37_PagesCoverOnce ==
  (walk # <<>> /\ Len(walk) = walk[1].pagination.totalPages)
  => LET all == Concat(walk)
         want == Selected(walk[1].q)
     IN /\ { all[i] : i \in DOMAIN all } = want
        /\ Len(all) = Cardinality(want)
        /\ NewestFirst(all)
        /\ \A k \in DOMAIN walk :
             LET pg == walk[k].pagination
             IN /\ pg.totalPages * LimitOf(walk[k].q) >= Cardinality(want)
                /\ (pg.totalPages - 1) * LimitOf(walk[k].q) < Cardinality(want)
                /\ pg.hasNextPage <=> (k < pg.totalPages)
                /\ pg.hasPrevPage <=> (k > 1)

\* two identifiers that differ at most in the case of their letters
SameIgnoringCase(a, b) ==
  /\ Len(a) = Len(b)
  /\ \A i \in DOMAIN a :
       \/ a[i] = b[i]
       \/ a[i] \in 65..90 /\ b[i] = a[i] + 32
       \/ b[i] \in 65..90 /\ a[i] = b[i] + 32

\* the accounts an identifier names, whatever its case
Named(id) == { u \in UserIds : SameIgnoringCase(Users[u].userId, id) }

\* every spelling of an identifier in upper and lower case
CaseVariants(id) ==
  { v \in [DOMAIN id -> UNION { {id[i], id[i] + 32, id[i] - 32} : i \in DOMAIN id }] :
      SameIgnoringCase(v, id) }

RECURSIVE SumIn(_, _)
SumIn(rs, u) ==
  IF rs = <<>> THEN 0
  ELSE (IF Head(rs).receiverId = u THEN Head(rs).amount ELSE 0) + SumIn(Tail(rs), u)

RECURSIVE SumOut(_, _)
SumOut(rs, u) ==
  IF rs = <<>> THEN 0
  ELSE (IF Head(rs).senderId = u /\ Head(rs).receiverId # u
        THEN Head(rs).amount ELSE 0) + SumOut(Tail(rs), u)

\* C34: whenever no request is being served, every account's balance is its
\* provisioned balance plus the amounts of the records that name it as
\* receiver minus the amounts of the records it sent to another account.
C34_Reconciled ==
  (\A p \in Proc : pc[p] = "idle")
  => \A u \in UserIds :
       db[u] = InitBalance[u] + SumIn(records, u) - SumOut(records, u)

\* C35: no entry of the registry maps an identifier to a socket that has
\* disconnected, whatever join_room messages the socket sent before.
C35_NoStaleEntry ==
  \A s \in Sockets \ connected :
    \A i \in DOMAIN onlineUsers : onlineUsers[i].socket # s

\* C38: a complete-registration, reset-password or reset-spin call that
\* arrives presenting the OTP an earlier call of the account succeeded with,
\* no OTP having been issued to the account since, is answered 400 and
\* writes nothing.
C38_OtpSingleUse ==
  \A p \in AuthProc :
    aresp[p].afterUse => (aresp[p].code = 400 /\ apc[p] = "idle")

\* an unexpired OTP that was used for a registration is presented again
C38_Witness ==
  \E p \in AuthProc :
    /\ aresp[p].afterUse /\ aresp[p].code = 400
    /\ aresp[p].req.route = "reset-password"
    /\ spent[aresp[p].req.user] = aresp[p].req.otp
    /\ acct[aresp[p].req.user].password = 2
    /\ \E q \in AuthProc \ {p} :
         /\ aresp[q].code = 201 /\ aresp[q].req.user = aresp[p].req.user
         /\ aresp[q].req.otp = aresp[p].req.otp

\* a handler's save completes
Saves(p, route) ==
  apc[p] = "consume" /\ apc'[p] = "idle" /\ areq[p].route = route

\* C39: complete-registration never succeeds for an account that holds a
\* password, and the S-Pin of an account that holds a password changes only
\* by a reset-spin of that account.
C39_RegistersOnce ==
  [][ /\ \A p \in AuthProc :
           Saves(p, "complete-registration") => acct[areq[p].user].password = 0
      /\ \A u \in AuthUsers :
           (acct[u].password # 0 /\ acct'[u].sPin # acct[u].sPin)
             => \E p \in AuthProc : Saves(p, "reset-spin") /\ areq[p].user = u ]_vars

====
